---- MODULE Spec2Model ----
(***************************************************************************)
(* RingBuf<T> of src/src/lib.rs: a fixed-capacity double-ended circular    *)
(* buffer over an array of MaybeUninit<T> slots and two indices, front and *)
(* back.  Every method of the type is one action; a call that panics       *)
(* aborts the program, so no method runs after it.                         *)
(*                                                                         *)
(* occ, hist, streak, op, res and lenBefore are history variables: the     *)
(* program does not hold them.  occ is the set of slots that hold a value  *)
(* a push wrote and no pop has taken out since, hist the double-ended      *)
(* queue a caller keeps on paper from the results the calls returned,      *)
(* streak the number of pushes accepted since the last pop call, op and    *)
(* res the last call and what it returned, lenBefore the value of len()    *)
(* when that call began.                                                   *)
(*                                                                         *)
(* The methods are also modelled statement by statement, for the claims    *)
(* about a handler that preempts the main context: pc is the statement the *)
(* main context has reached ("idle" between calls), pend the argument of   *)
(* the call in progress and the len() it started from.  irq tells whether  *)
(* interrupts are enabled, cell is the static storage the caller of new()  *)
(* places the buffer in, seen what the handler last found there.           *)
(***************************************************************************)
EXTENDS Integers, Sequences, FiniteSets, TLC

\* lib.rs:7 fixes BUF_SIZE = 16.  The code refers to it only through
\* capacity() and the array length, so the model is checked with a
\* scaled-down capacity: every index still wraps and the buffer still fills.
BUF_SIZE == 3

\* Element values are 1..MaxVal.
MaxVal == 2

\* The caller's paper queue is followed up to one element past the capacity.
MaxStored == BUF_SIZE + 1

Val == 1..MaxVal

\* A slot no push has written: MaybeUninit::uninit().
Uninit == 0

\* Whatever bytes an uninitialised slot or memory outside the array holds.
AnyT == 0..MaxVal

Slots == 0..(BUF_SIZE - 1)

\* Arguments of get and of the index operators.
Indices == 0..BUF_SIZE

VARIABLES front, back, data, occ, hist, streak, op, res, lenBefore,
          pc, pend, irq, cell, seen

vars ==
  <<front, back, data, occ, hist, streak, op, res, lenBefore,
    pc, pend, irq, cell, seen>>

\* Where the main context stands, and what new() and its caller are at.
ctx == <<pc, pend>>

boot == <<irq, cell, seen>>

----
\* The queries.

capacity == BUF_SIZE

\* len() with the operands of the wrapped branch exchanged.
len_swapped ==
  IF front <= back THEN back - front ELSE capacity - back + front

\* len() with front == back taken as the wrapped, full case.
len_strict ==
  IF front < back THEN back - front ELSE capacity - front + back

len ==
  IF front <= back THEN back - front ELSE capacity - front + back

is_full == len = capacity

is_empty == len = 0

free == capacity - len

\* assume_init(): the slot's value; of a slot never written, any bytes.
AssumeInit(x) == IF x = Uninit THEN AnyT ELSE {x}

----
\* Results of a call.

Ok(vs) == [kind |-> "Ok", val |-> vs]

WouldBlock == [kind |-> "WouldBlock", val |-> <<>>]

Panic == [kind |-> "Panic", val |-> <<>>]

Call(name, args) == [name |-> name, arg |-> args]

\* The program runs until a panic aborts it.
Running == res.kind # "Panic"

Front(s) == SubSeq(s, 1, Len(s) - 1)

\* No call in progress.
NoCall == [item |-> 0, len |-> 0]

\* The static storage with the buffer placed in it.
Placed ==
  [present |-> TRUE, front |-> 0, back |-> 0,
   written |-> {"front", "back", "present"}]

\* The handler has not looked yet.
NotSeen == [present |-> FALSE, front |-> 0, back |-> 0]

----
Init ==
  /\ front = 0
  /\ back = 0
  /\ data = [p \in Slots |-> Uninit]
  /\ occ = {}
  /\ hist = <<>>
  /\ streak = 0
  /\ op = Call("new", <<>>)
  /\ res = Ok(<<>>)
  /\ lenBefore = 0
  /\ pc = "idle"
  /\ pend = NoCall
  /\ irq = TRUE
  /\ cell = Placed
  /\ seen = NotSeen

\* What every call that runs as one step records about itself; the main
\* context stays where it is.
Record(name, args, r) ==
  /\ op' = Call(name, args)
  /\ res' = r
  /\ lenBefore' = len
  /\ UNCHANGED <<ctx, boot>>

push_back(item) ==
  /\ Running
  /\ Len(hist) < MaxStored
  /\ IF is_full
       THEN /\ Record("push_back", <<item>>, WouldBlock)
            /\ UNCHANGED <<front, back, data, occ, hist, streak>>
       ELSE /\ data' = [data EXCEPT ![back] = item]
            /\ back' = IF back = capacity - 1 THEN 0 ELSE back + 1
            /\ occ' = occ \cup {back}
            /\ hist' = Append(hist, item)
            /\ streak' = streak + 1
            /\ Record("push_back", <<item>>, Ok(<<>>))
            /\ UNCHANGED front

\* push_front with front wrapping to capacity() instead of capacity() - 1.
push_front_wraps_to_capacity(item) ==
  /\ Running
  /\ Len(hist) < MaxStored
  /\ IF is_full
       THEN /\ Record("push_front", <<item>>, WouldBlock)
            /\ UNCHANGED <<front, back, data, occ, hist, streak>>
       ELSE /\ front' = IF front = 0 THEN capacity ELSE front - 1
            /\ data' = [data EXCEPT ![front' % capacity] = item]
            /\ occ' = occ \cup {front' % capacity}
            /\ hist' = <<item>> \o hist
            /\ streak' = streak + 1
            /\ Record("push_front", <<item>>, Ok(<<>>))
            /\ UNCHANGED back

push_front(item) ==
  /\ Running
  /\ Len(hist) < MaxStored
  /\ IF is_full
       THEN /\ Record("push_front", <<item>>, WouldBlock)
            /\ UNCHANGED <<front, back, data, occ, hist, streak>>
       ELSE /\ front' = IF front = 0 THEN capacity - 1 ELSE front - 1
            /\ data' = [data EXCEPT ![front'] = item]
            /\ occ' = occ \cup {front'}
            /\ hist' = <<item>> \o hist
            /\ streak' = streak + 1
            /\ Record("push_front", <<item>>, Ok(<<>>))
            /\ UNCHANGED back

\* pop_back as it would be with back moved ahead of the emptiness test.
pop_back_moves_first ==
  /\ Running
  /\ streak' = 0
  /\ back' = IF back = 0 THEN capacity - 1 ELSE back - 1
  /\ IF is_empty
       THEN /\ Record("pop_back", <<>>, WouldBlock)
            /\ UNCHANGED <<front, data, occ, hist>>
       ELSE /\ \E d \in AssumeInit(data[back']) :
                 Record("pop_back", <<>>, Ok(<<d>>))
            /\ occ' = occ \ {back'}
            /\ hist' = Front(hist)
            /\ UNCHANGED <<front, data>>

pop_back ==
  /\ Running
  /\ streak' = 0
  /\ IF is_empty
       THEN /\ Record("pop_back", <<>>, WouldBlock)
            /\ UNCHANGED <<front, back, data, occ, hist>>
       ELSE /\ back' = IF back = 0 THEN capacity - 1 ELSE back - 1
            /\ \E d \in AssumeInit(data[back']) :
                 Record("pop_back", <<>>, Ok(<<d>>))
            /\ occ' = occ \ {back'}
            /\ hist' = Front(hist)
            /\ UNCHANGED <<front, data>>

pop_front ==
  /\ Running
  /\ streak' = 0
  /\ IF is_empty
       THEN /\ Record("pop_front", <<>>, WouldBlock)
            /\ UNCHANGED <<front, back, data, occ, hist>>
       ELSE IF front \notin Slots
         THEN \* data[self.front]: the array's bounds check panics
              /\ Record("pop_front", <<>>, Panic)
              /\ UNCHANGED <<front, back, data, occ, hist>>
         ELSE /\ front' = IF front = capacity THEN 0 ELSE front + 1
              /\ \E d \in AssumeInit(data[front]) :
                   Record("pop_front", <<>>, Ok(<<d>>))
              /\ occ' = occ \ {front}
              /\ hist' = IF hist = <<>> THEN hist ELSE Tail(hist)
              /\ UNCHANGED <<back, data>>

\* get with the bounds test off by one: len() < i instead of len() <= i.
get_off_by_one(i) ==
  /\ Running
  /\ UNCHANGED <<front, back, data, occ, hist, streak>>
  /\ IF len < i
       THEN Record("get", <<i>>, WouldBlock)
       ELSE IF front + i \notin Slots
         THEN Record("get", <<i>>, Panic)
         ELSE \E d \in AssumeInit(data[front + i]) :
                Record("get", <<i>>, Ok(<<d>>))

get(i) ==
  /\ Running
  /\ UNCHANGED <<front, back, data, occ, hist, streak>>
  /\ IF len <= i
       THEN Record("get", <<i>>, WouldBlock)
       ELSE IF front + i \notin Slots
         THEN Record("get", <<i>>, Panic)
         ELSE \E d \in AssumeInit(data[front + i]) :
                Record("get", <<i>>, Ok(<<d>>))

\* Index<usize>: buf[i].  The reference returned points at the local copy d,
\* which is dead when the caller reads through it: the caller sees d or
\* whatever the stack holds by then.
index(i) ==
  /\ Running
  /\ UNCHANGED <<front, back, data, occ, hist, streak>>
  /\ IF len <= i
       THEN Record("index", <<i>>, Panic)
       ELSE IF front + i \notin Slots
         THEN Record("index", <<i>>, Panic)
         ELSE \E d \in AnyT : Record("index", <<i>>, Ok(<<d>>))

\* IndexMut<usize>: buf[i] = item.  The write goes through a reference to the
\* local copy d, in the dead frame of index_mut: no slot of data receives it.
index_mut(i, item) ==
  /\ Running
  /\ UNCHANGED <<front, back, data, occ, hist, streak>>
  /\ IF len <= i
       THEN Record("index_mut", <<i, item>>, Panic)
       ELSE IF front + i \notin Slots
         THEN Record("index_mut", <<i, item>>, Panic)
         ELSE Record("index_mut", <<i, item>>, Ok(<<>>))

\* What a view of n elements starting at physical slot p can show: the slots
\* of the array as they are, any bytes for the addresses past the array.
Views(p, n) ==
  { v \in [1..n -> AnyT] :
      \A k \in 1..n :
        v[k] \in (IF p + k - 1 \in Slots
                    THEN AssumeInit(data[p + k - 1])
                    ELSE AnyT) }

\* Index<Range<usize>>: buf[lo..hi], for lo <= hi.
index_range(lo, hi) ==
  /\ Running
  /\ lo <= hi
  /\ UNCHANGED <<front, back, data, occ, hist, streak>>
  /\ IF len < hi
       THEN Record("index_range", <<lo, hi>>, Panic)
       ELSE IF front + lo \notin Slots
         THEN Record("index_range", <<lo, hi>>, Panic)
         ELSE \E v \in Views(front + lo, hi - lo) :
                Record("index_range", <<lo, hi>>, Ok(v))

----
\* push_front and push_back statement by statement.

\* push_front with the write ahead of the move of front.
push_front_steps_write_first(item) ==
  \/ /\ pc = "idle"
     /\ Running
     /\ Len(hist) < MaxStored
     /\ IF is_full
          THEN /\ Record("push_front", <<item>>, WouldBlock)
               /\ UNCHANGED <<front, back, data, occ, hist, streak>>
          ELSE /\ data' = [data EXCEPT
                             ![IF front = 0 THEN capacity - 1 ELSE front - 1]
                               = item]
               /\ pc' = "push_front_moved"
               /\ pend' = [item |-> item, len |-> len]
               /\ UNCHANGED <<front, back, occ, hist, streak,
                              op, res, lenBefore, boot>>
  \/ /\ pc = "push_front_moved"
     /\ Running
     /\ item = pend.item
     /\ front' = IF front = 0 THEN capacity - 1 ELSE front - 1
     /\ occ' = occ \cup {front'}
     /\ hist' = <<item>> \o hist
     /\ streak' = streak + 1
     /\ op' = Call("push_front", <<item>>)
     /\ res' = Ok(<<>>)
     /\ lenBefore' = pend.len
     /\ pc' = "idle"
     /\ pend' = NoCall
     /\ UNCHANGED <<back, data, boot>>

\* lib.rs:69-76 up to the move of front, then lib.rs:77-78.
push_front_steps(item) ==
  \/ /\ pc = "idle"
     /\ Running
     /\ Len(hist) < MaxStored
     /\ IF is_full
          THEN /\ Record("push_front", <<item>>, WouldBlock)
               /\ UNCHANGED <<front, back, data, occ, hist, streak>>
          ELSE /\ front' = IF front = 0 THEN capacity - 1 ELSE front - 1
               /\ pc' = "push_front_moved"
               /\ pend' = [item |-> item, len |-> len]
               /\ UNCHANGED <<back, data, occ, hist, streak,
                              op, res, lenBefore, boot>>
  \/ /\ pc = "push_front_moved"
     /\ Running
     /\ item = pend.item
     /\ data' = [data EXCEPT ![front] = item]
     /\ occ' = occ \cup {front}
     /\ hist' = <<item>> \o hist
     /\ streak' = streak + 1
     /\ op' = Call("push_front", <<item>>)
     /\ res' = Ok(<<>>)
     /\ lenBefore' = pend.len
     /\ pc' = "idle"
     /\ pend' = NoCall
     /\ UNCHANGED <<front, back, boot>>

\* push_back with back advanced ahead of the write.
push_back_steps_advance_first(item) ==
  \/ /\ pc = "idle"
     /\ Running
     /\ Len(hist) < MaxStored
     /\ IF is_full
          THEN /\ Record("push_back", <<item>>, WouldBlock)
               /\ UNCHANGED <<front, back, data, occ, hist, streak>>
          ELSE /\ back' = IF back = capacity - 1 THEN 0 ELSE back + 1
               /\ pc' = "push_back_written"
               /\ pend' = [item |-> item, len |-> len]
               /\ UNCHANGED <<front, data, occ, hist, streak,
                              op, res, lenBefore, boot>>
  \/ /\ pc = "push_back_written"
     /\ Running
     /\ item = pend.item
     /\ data' = [data EXCEPT
                   ![IF back = 0 THEN capacity - 1 ELSE back - 1] = item]
     /\ occ' = occ \cup {IF back = 0 THEN capacity - 1 ELSE back - 1}
     /\ hist' = Append(hist, item)
     /\ streak' = streak + 1
     /\ op' = Call("push_back", <<item>>)
     /\ res' = Ok(<<>>)
     /\ lenBefore' = pend.len
     /\ pc' = "idle"
     /\ pend' = NoCall
     /\ UNCHANGED <<front, back, boot>>

\* lib.rs:56-59 up to the write of the slot, then lib.rs:60-65.
push_back_steps(item) ==
  \/ /\ pc = "idle"
     /\ Running
     /\ Len(hist) < MaxStored
     /\ IF is_full
          THEN /\ Record("push_back", <<item>>, WouldBlock)
               /\ UNCHANGED <<front, back, data, occ, hist, streak>>
          ELSE /\ data' = [data EXCEPT ![back] = item]
               /\ occ' = occ \cup {back}
               /\ pc' = "push_back_written"
               /\ pend' = [item |-> item, len |-> len]
               /\ UNCHANGED <<front, back, hist, streak,
                              op, res, lenBefore, boot>>
  \/ /\ pc = "push_back_written"
     /\ Running
     /\ item = pend.item
     /\ back' = IF back = capacity - 1 THEN 0 ELSE back + 1
     /\ hist' = Append(hist, item)
     /\ streak' = streak + 1
     /\ op' = Call("push_back", <<item>>)
     /\ res' = Ok(<<>>)
     /\ lenBefore' = pend.len
     /\ pc' = "idle"
     /\ pend' = NoCall
     /\ UNCHANGED <<front, data, occ, boot>>

----
\* IndexMut<Range<usize>>: &mut buf[lo..hi], for lo <= hi; what the view shows.
index_range_mut(lo, hi) ==
  /\ Running
  /\ lo <= hi
  /\ UNCHANGED <<front, back, data, occ, hist, streak>>
  /\ IF len < hi
       THEN Record("index_range_mut", <<lo, hi>>, Panic)
       ELSE IF front + lo \notin Slots
         THEN Record("index_range_mut", <<lo, hi>>, Panic)
         ELSE \E v \in Views(front + lo, hi - lo) :
                Record("index_range_mut", <<lo, hi>>, Ok(v))

Next ==
  \/ \E item \in Val : push_back(item)
  \/ \E item \in Val : push_front(item)
  \/ pop_back
  \/ pop_front
  \/ \E i \in Indices : get(i)
  \/ \E i \in Indices : index(i)
  \/ \E i \in Indices, item \in Val : index_mut(i, item)
  \/ \E lo \in Indices, hi \in Indices : index_range(lo, hi)
  \/ \E lo \in Indices, hi \in Indices : index_range_mut(lo, hi)

Spec == Init /\ [][Next]_vars

\* The calls that return a Result: the pushes, the pops and get.
NextDeque ==
  \/ \E item \in Val : push_back(item)
  \/ \E item \in Val : push_front(item)
  \/ pop_back
  \/ pop_front
  \/ \E i \in Indices : get(i)

SpecDeque == Init /\ [][NextDeque]_vars

\* push_back and pop_front only, never more than capacity() elements stored.
NextFifo ==
  \/ \E item \in Val : Len(hist) < capacity /\ push_back(item)
  \/ pop_front

SpecFifo == Init /\ [][NextFifo]_vars

\* push_back, push_front and pop_back only, never more than capacity() - 1
\* elements stored.
NextNoPopFront ==
  \/ \E item \in Val : Len(hist) < capacity - 1 /\ push_back(item)
  \/ \E item \in Val : Len(hist) < capacity - 1 /\ push_front(item)
  \/ pop_back

SpecNoPopFront == Init /\ [][NextNoPopFront]_vars

----
\* new() statement by statement, its caller placing the result in static
\* storage, and a handler that looks at that storage.

\* The values of a usize the model follows: what memory holds before it is
\* written.
AnyUsize == Indices

Fields == {"front", "back", "present"}

Pending == [kind |-> "Pending", val |-> <<>>]

\* new() has been called and has not run yet; neither the value it builds
\* nor the static storage has been written.
InitNew ==
  /\ front \in AnyUsize
  /\ back \in AnyUsize
  /\ data = [p \in Slots |-> Uninit]
  /\ occ = {}
  /\ hist = <<>>
  /\ streak = 0
  /\ op = Call("new", <<>>)
  /\ res = Pending
  /\ lenBefore = 0
  /\ pc = "new_enter"
  /\ pend = NoCall
  /\ irq = TRUE
  /\ \E f \in AnyUsize, b \in AnyUsize :
       cell = [present |-> FALSE, front |-> f, back |-> b, written |-> {}]
  /\ seen = NotSeen

\* lib.rs:16 interrupt_free disables interrupts; 17 and 18 build the value
\* (19 leaves data uninitialised); 20 interrupt_free enables interrupts again
\* and new() returns the value to its caller.
new_steps ==
  /\ UNCHANGED <<data, occ, hist, streak, op, lenBefore, pend, cell, seen>>
  /\ \/ /\ pc = "new_enter"
        /\ irq' = FALSE
        /\ pc' = "new_front"
        /\ UNCHANGED <<front, back, res>>
     \/ /\ pc = "new_front"
        /\ front' = 0
        /\ pc' = "new_back"
        /\ UNCHANGED <<back, irq, res>>
     \/ /\ pc = "new_back"
        /\ back' = 0
        /\ pc' = "new_leave"
        /\ UNCHANGED <<front, irq, res>>
     \/ /\ pc = "new_leave"
        /\ irq' = TRUE
        /\ res' = Ok(<<>>)
        /\ pc' = "placing"
        /\ UNCHANGED <<front, back>>

\* The caller stores the value new() returned in the static storage, one
\* word at a time and in any order; the mark that a buffer is there is one
\* of the words.
place(f) ==
  /\ pc = "placing"
  /\ f \notin cell.written
  /\ cell' = [cell EXCEPT
               ![f] = IF f = "front" THEN front
                      ELSE IF f = "back" THEN back ELSE TRUE,
               !.written = @ \cup {f}]
  /\ pc' = IF cell'.written = Fields THEN "idle" ELSE "placing"
  /\ UNCHANGED <<front, back, data, occ, hist, streak, op, res, lenBefore,
                 pend, irq, seen>>

\* An interrupt handler runs whenever interrupts are enabled and looks at
\* the static storage.
handler ==
  /\ irq
  /\ seen' = [present |-> cell.present, front |-> cell.front,
              back |-> cell.back]
  /\ UNCHANGED <<front, back, data, occ, hist, streak, op, res, lenBefore,
                 pc, pend, irq, cell>>

NextNew ==
  \/ new_steps
  \/ \E f \in Fields : place(f)
  \/ handler

SpecNew == InitNew /\ [][NextNew]_vars

----
\* The main context calls push_front and pop_back; a handler that preempts
\* it at any statement calls get.
NextPushFront ==
  \/ \E item \in Val : push_front_steps(item)
  \/ pc = "idle" /\ pop_back
  \/ \E i \in Indices : get(i)

SpecPushFront == Init /\ [][NextPushFront]_vars

\* One producer, the main context, calls push_back with fewer than
\* capacity() - 1 elements stored; one consumer, a handler that preempts it
\* at any statement, calls pop_front, while front is below capacity() - 1,
\* and get.
NextProducerConsumer ==
  \/ \E item \in Val : Len(hist) < capacity - 1 /\ push_back_steps(item)
  \/ front < capacity - 1 /\ pop_front
  \/ \E i \in Indices : get(i)

SpecProducerConsumer == Init /\ [][NextProducerConsumer]_vars

\* push_front and pop_back only.
NextMirror ==
  \/ \E item \in Val : push_front(item)
  \/ pop_back

SpecMirror == Init /\ [][NextMirror]_vars

----
Pushes == {"push_back", "push_front"}

Pops == {"pop_back", "pop_front"}

NonIndexing == Pushes \cup Pops \cup {"get"}

\* The slot of logical position i.
Physical(i) == (front + i) % capacity

C2_FullRejects ==
  [][(streak = capacity /\ op'.name \in Pushes)
       => (res' = WouldBlock /\ len' = len /\ data' = data)]_vars

\* C3: len() is the number of pushes accepted minus the number of pops
\* accepted, which is the length of the caller's paper queue.
C3_LenCounts == len = Len(hist)

\* C4: get(i) returns the value of physical slot (front + i) mod N when
\* i < len(), and WouldBlock when i >= len().
C4_Get ==
  op.name = "get" =>
    IF op.arg[1] < len
      THEN res = Ok(<<data[Physical(op.arg[1])]>>)
      ELSE res = WouldBlock

\* C5: push_back, push_front, pop_back, pop_front and get return Ok or
\* WouldBlock; none of them aborts.
C5_Total == op.name \in NonIndexing => res.kind \in {"Ok", "WouldBlock"}

\* C6: a pop on an empty buffer returns WouldBlock, and a call of push_back,
\* push_front, pop_back, pop_front or get that returns WouldBlock leaves
\* front, back and every slot as they were.
C6_FailureLeavesState ==
  [][/\ (op'.name \in Pops /\ hist = <<>>) => res' = WouldBlock
     /\ (op'.name \in NonIndexing /\ res' = WouldBlock)
          => UNCHANGED <<front, back, data>>]_vars

\* A pop_back refused on a buffer that elements have passed through.
C6_Witness ==
  /\ op.name = "pop_back"
  /\ res = WouldBlock
  /\ hist = <<>>
  /\ front > 0
  /\ data[0] # Uninit

\* C7: in a run of push_front and pop_back calls, every pop_back that
\* succeeds returns the oldest value pushed and not yet popped.
C7_MirrorFifo ==
  [][(op'.name = "pop_back" /\ res'.kind = "Ok")
       => (hist # <<>> /\ res'.val = <<hist[Len(hist)]>>)]_vars

\* C8: a pop_back right after an accepted push_back(v) returns Ok(v) and
\* len() is what it was before the push; likewise pop_front after push_front.
C8_RoundTrip ==
  [][/\ (op.name = "push_back" /\ res.kind = "Ok" /\ op'.name = "pop_back")
          => (res' = Ok(op.arg) /\ len' = lenBefore)
     /\ (op.name = "push_front" /\ res.kind = "Ok" /\ op'.name = "pop_front")
          => (res' = Ok(op.arg) /\ len' = lenBefore)]_vars

\* C9: for i < len(), buf[i] = v puts v in slot (front + i) mod N and leaves
\* front, back and every other slot unchanged.
C9_WriteThrough ==
  [][(op'.name = "index_mut" /\ op'.arg[1] < len)
       => /\ res'.kind = "Ok"
          /\ data' = [data EXCEPT ![Physical(op'.arg[1])] = op'.arg[2]]
          /\ front' = front
          /\ back' = back]_vars

\* C10: for lo <= hi <= len(), buf[lo..hi] yields the hi - lo elements of
\* logical positions lo .. hi-1, the values of slots (front + j) mod N.
C10_RangeRead ==
  (op.name = "index_range" /\ op.arg[2] <= len) =>
    res = Ok([k \in 1..(op.arg[2] - op.arg[1]) |->
                data[Physical(op.arg[1] + k - 1)]])

\* C11: buf[i] and buf[i] = v abort exactly when i >= len(); buf[lo..hi] and
\* &mut buf[lo..hi] abort exactly when hi > len().
C11_AbortsIffOutOfBounds ==
  /\ op.name \in {"index", "index_mut"}
       => (res.kind = "Panic" <=> op.arg[1] >= len)
  /\ op.name \in {"index_range", "index_range_mut"}
       => (res.kind = "Panic" <=> op.arg[2] > len)

\* C13: 0 <= len() <= N, and free() = capacity() - len() lies in 0..N.
C13_LenInRange == len \in 0..capacity /\ free \in 0..capacity

\* The occupied range wraps and one slot is left.
C13_Witness == front > back /\ len = capacity - 1 /\ free = 1

\* C15: front and back are physical indices, 0 <= front, back <= N-1.
C15_IndicesInRange == front \in Slots /\ back \in Slots

\* C18: len() <= N-1, so is_full() is false and free() >= 1, and no
\* push_back or push_front returns WouldBlock.
C18_NeverFull ==
  /\ len <= capacity - 1
  /\ ~is_full
  /\ free >= 1
  /\ op.name \in Pushes => res.kind # "WouldBlock"

\* A push accepted with capacity() elements already on the caller's paper.
C18_Witness ==
  /\ op.name \in Pushes
  /\ res.kind = "Ok"
  /\ Len(hist) = capacity + 1

\* C19: in a run of push_back, push_front and pop_back calls that never
\* stores more than N-1 elements the buffer agrees with the reference deque
\* hist: every push is accepted, pop_back returns the newest-at-back element
\* or WouldBlock on the empty deque, len() is the deque's length, the slots
\* from front hold the deque's elements, no call aborts, and front and back
\* stay in 0..N-1.
C19_AgreesWithDeque ==
  /\ [](/\ len = Len(hist)
        /\ front \in Slots
        /\ back \in Slots
        /\ res.kind # "Panic"
        /\ \A i \in 1..Len(hist) : data[Physical(i - 1)] = hist[i])
  /\ [][/\ op'.name \in Pushes => res' = Ok(<<>>)
        /\ op'.name = "pop_back" =>
             res' = IF hist = <<>> THEN WouldBlock
                                   ELSE Ok(<<hist[Len(hist)]>>)]_vars

\* A pop_back that took an element out of a range that wraps.
C19_Witness ==
  /\ op.name = "pop_back"
  /\ res.kind = "Ok"
  /\ front > back
  /\ len > 0

\* C14: the slot a successful pop_back, pop_front or get reads holds a value
\* a push wrote and no pop has taken out since.
C14_ReadsOccupied ==
  [][/\ (op'.name = "pop_back" /\ res'.kind = "Ok") => back' \in occ
     /\ (op'.name = "pop_front" /\ res'.kind = "Ok") => front \in occ
     /\ (op'.name = "get" /\ res'.kind = "Ok")
          => front + op'.arg[1] \in occ]_vars

\* A pop_front that succeeded after more pushes were accepted than fit.
C14_Witness ==
  /\ op.name = "pop_front"
  /\ res.kind = "Ok"
  /\ Len(hist) >= capacity

\* C16: the slots that hold a pushed and not yet popped element are exactly
\* [front, back) when front <= back, and [front, N) with [0, back) otherwise.
C16_Occupancy ==
  occ = IF front <= back
          THEN {p \in Slots : front <= p /\ p < back}
          ELSE {p \in Slots : front <= p \/ p < back}

C20_CountedSlotsWritten ==
  /\ [](\A i \in 0..(len - 1) :
          /\ Physical(i) \in occ
          /\ data[Physical(i)] = hist[i + 1])
  /\ [][pc' = pc =>
          /\ (op'.name = "pop_front" /\ res'.kind = "Ok") => front \in occ
          /\ (op'.name = "get" /\ res'.kind = "Ok")
               => front + op'.arg[1] \in occ]_vars

\* The consumer popped while the producer stood between its write and its
\* advance of back.
C20_Witness ==
  /\ pc = "push_back_written"
  /\ op.name = "pop_front"
  /\ res.kind = "Ok"
  /\ data[back] = pend.item

====
